---- MODULE Spec2Model ----
(***************************************************************************)
(* A model of mne/annotations.py: the Annotations collection (construction, *)
(* append, delete, +, +=, crop), the cross-recording merge                  *)
(* _combine_annotations, the marker-window extraction                       *)
(* _annotations_starts_stops, the FIF codec _write_annotations /            *)
(* _read_annotations and events_from_annotations.                           *)
(*                                                                          *)
(* Representation.                                                          *)
(*   - A float number of seconds is a fixed-point integer with a resolution *)
(*     of 10^-6 s (one tick = one microsecond), so that the microsecond     *)
(*     half of a (seconds, microseconds) pair is exact.  Sample rates are   *)
(*     chosen so that every quotient the code computes is exact.            *)
(*   - A numpy array or a Python list is a sequence.                        *)
(*   - A description is a sequence of one-character strings, so that        *)
(*     searching, splitting and replacing characters are computed.          *)
(*   - Python's None is the empty tuple; a value x that may be None is the  *)
(*     one-element tuple <<x>>.                                             *)
(*   - A call that raises returns a record with raised = TRUE that carries  *)
(*     the object as the exception leaves it.                               *)
(***************************************************************************)
EXTENDS Integers, Sequences, FiniteSets, TLC

VARIABLES
    onset,        \* Annotations.onset
    duration,     \* Annotations.duration
    description,  \* Annotations.description
    orig_time,    \* Annotations.orig_time
    last,         \* the last call on the object: its name, arguments, outcome
    ret,          \* the value the last call of a function returned
    fid           \* the FIF file: the directory of tags written to it

vars == <<onset, duration, description, orig_time, last, ret, fid>>

----------------------------------------------------------------------------
(* Values                                                                   *)

None == <<>>
Some(x) == <<x>>
IsNone(x) == x = <<>>

\* 1000000. in "orig_time[0] + orig_time[1] / 1000000."
USEC == 1000000

\* The longest array the model follows.
MaxLen == 2

Min(S) == CHOOSE x \in S : \A y \in S : x <= y
Max(S) == CHOOSE x \in S : \A y \in S : x >= y
Range(f) == {f[i] : i \in DOMAIN f}

\* np.repeat(x, n)
np_repeat(x, n) == [i \in 1..n |-> x]

\* ndarray.compress(condition): the elements whose condition is True, in order.
RECURSIVE compress(_, _)
compress(arr, condition) ==
    IF Len(arr) = 0 THEN <<>>
    ELSE (IF condition[1] THEN <<arr[1]>> ELSE <<>>)
         \o compress(Tail(arr), Tail(condition))

\* ';' in desc
HasSemicolon(desc) == \E i \in 1..Len(desc) : desc[i] = ";"

----------------------------------------------------------------------------
(* Annotations.__init__                                                     *)

\* orig_time as __init__ stores it: None stays None, a (seconds,
\* microseconds) pair becomes seconds + microseconds / 1000000., a scalar
\* becomes a float.
init_orig_time(orig_time_in) ==
    IF orig_time_in.kind = "none" THEN None
    ELSE IF orig_time_in.kind = "pair"
         THEN Some(orig_time_in.v[1] * USEC + orig_time_in.v[2])
         ELSE Some(orig_time_in.v)

\* Annotations(onset, duration, description, orig_time): the new object, or
\* the ValueError.  onset and duration are arrays [ndim, v]; description is a
\* single string [kind |-> "str"] or a list [kind |-> "list"].
Annotations(onset_in, duration_in, description_in, orig_time_in) ==
    LET desc == IF description_in.kind = "str"
                THEN np_repeat(description_in.v, Len(onset_in.v))
                ELSE description_in.v
    IN  IF onset_in.ndim # 1 THEN [ok |-> FALSE, exc |-> "ValueError"]
        ELSE IF duration_in.ndim # 1 THEN [ok |-> FALSE, exc |-> "ValueError"]
        ELSE IF ~(Len(onset_in.v) = Len(duration_in.v)
                  /\ Len(duration_in.v) = Len(desc))
             THEN [ok |-> FALSE, exc |-> "ValueError"]
        ELSE IF \E i \in 1..Len(desc) : HasSemicolon(desc[i])
             THEN [ok |-> FALSE, exc |-> "ValueError"]
        ELSE [ok |-> TRUE,
              onset |-> onset_in.v,
              duration |-> duration_in.v,
              description |-> desc,
              orig_time |-> init_orig_time(orig_time_in)]

\* The object a successful construction leaves.
Obj(r) == [onset |-> r.onset, duration |-> r.duration,
           description |-> r.description, orig_time |-> r.orig_time]

\* Annotations.__len__
Annotations_len(a) == Len(a.duration)

----------------------------------------------------------------------------
(* append, +=, +, delete                                                    *)

\* Annotations.append(onset, duration, description): np.append flattens its
\* argument, so a scalar is the one-element sequence.
append(a, onset_in, duration_in, description_in) ==
    [a EXCEPT !.onset = @ \o onset_in,
              !.duration = @ \o duration_in,
              !.description = @ \o description_in]

\* iadd without the adoption of other's origin by an empty self.
iadd_no_adoption(a, other) ==
    IF a.orig_time # other.orig_time
    THEN [raised |-> TRUE, self |-> a]
    ELSE [raised |-> FALSE,
          self |-> append(a, other.onset, other.duration, other.description)]

\* Annotations.__iadd__(other)
iadd(a, other) ==
    LET a1 == IF Annotations_len(a) = 0
              THEN [a EXCEPT !.orig_time = other.orig_time]
              ELSE a
    IN  IF a1.orig_time # other.orig_time
        THEN [raised |-> TRUE, self |-> a1]
        ELSE [raised |-> FALSE,
              self |-> append(a1, other.onset, other.duration,
                              other.description)]

\* Annotations.__add__(other): += on a deep copy; self is not touched.
add(a, other) ==
    LET out == iadd(a, other)
    IN  IF out.raised THEN [raised |-> TRUE, value |-> None]
        ELSE [raised |-> FALSE, value |-> Some(out.self)]

\* The indices np.delete(arr, idx) is given: an int, or a list of ints.
IdxList(idx) == IF idx.kind = "int" THEN <<idx.v>> ELSE idx.v

\* np.delete raises IndexError for an index outside [-n, n).
InBounds(idx, n) ==
    \A k \in 1..Len(IdxList(idx)) :
        IdxList(idx)[k] >= -n /\ IdxList(idx)[k] < n

\* np.delete(arr, idx), idx in bounds: negative indices count from the end.
np_delete(arr, idx) ==
    LET n == Len(arr)
        drop == {(IF IdxList(idx)[k] < 0 THEN IdxList(idx)[k] + n
                  ELSE IdxList(idx)[k]) + 1 : k \in 1..Len(IdxList(idx))}
    IN  compress(arr, [i \in 1..n |-> i \notin drop])

\* Annotations.delete(idx): three np.delete calls, one array after the other.
delete(a, idx) ==
    IF ~InBounds(idx, Len(a.onset)) THEN [raised |-> TRUE, self |-> a]
    ELSE LET a1 == [a EXCEPT !.onset = np_delete(@, idx)]
         IN  IF ~InBounds(idx, Len(a.duration))
             THEN [raised |-> TRUE, self |-> a1]
             ELSE LET a2 == [a1 EXCEPT !.duration = np_delete(@, idx)]
                  IN  IF ~InBounds(idx, Len(a.description))
                      THEN [raised |-> TRUE, self |-> a2]
                      ELSE [raised |-> FALSE,
                            self |-> [a2 EXCEPT !.description =
                                                    np_delete(@, idx)]]

----------------------------------------------------------------------------
(* Annotations.crop                                                         *)

\* crop is modelled on an object whose three arrays have the same length
\* (numpy's elementwise operations are modelled for equal lengths).

\* offset = 0 if self.orig_time is None else self.orig_time
crop_offset(a) == IF IsNone(a.orig_time) THEN 0 ELSE a.orig_time[1]

\* absolute_onset = self.onset + offset
absolute_onset(a) == [i \in 1..Len(a.onset) |-> a.onset[i] + crop_offset(a)]

\* absolute_offset = absolute_onset + self.duration
absolute_offset(a) ==
    [i \in 1..Len(a.onset) |-> absolute_onset(a)[i] + a.duration[i]]

\* np.min / np.max of an empty array raise ValueError
resolve_raises(a, tmin_in, tmax_in) ==
    (IsNone(tmin_in) \/ IsNone(tmax_in)) /\ Len(a.onset) = 0

\* tmin = tmin if tmin is not None else absolute_onset.min()
resolve_tmin(a, tmin_in) ==
    IF IsNone(tmin_in) THEN Min(Range(absolute_onset(a))) ELSE tmin_in[1]

\* tmax = tmax if tmax is not None else absolute_offset.max()
resolve_tmax(a, tmax_in) ==
    IF IsNone(tmax_in) THEN Max(Range(absolute_offset(a))) ELSE tmax_in[1]

\* window_raises without the check of a negative tmin.
window_raises_order_only(tmin, tmax) == tmin > tmax

\* the two checks that raise ValueError
window_raises(tmin, tmax) == tmin > tmax \/ tmin < 0

\* out_of_bounds with >= and <=: a row that only touches the window is out.
out_of_bounds_touching(a, tmin, tmax) ==
    [i \in 1..Len(a.onset) |-> absolute_onset(a)[i] >= tmax
                               \/ absolute_offset(a)[i] <= tmin]

\* out_of_bounds = (absolute_onset > tmax) | (absolute_offset < tmin)
out_of_bounds(a, tmin, tmax) ==
    [i \in 1..Len(a.onset) |-> absolute_onset(a)[i] > tmax
                               \/ absolute_offset(a)[i] < tmin]

\* clip_left_elem = (absolute_onset < tmin) & ~out_of_bounds
clip_left_elem(a, tmin, tmax) ==
    [i \in 1..Len(a.onset) |-> absolute_onset(a)[i] < tmin
                               /\ ~out_of_bounds(a, tmin, tmax)[i]]

\* clip_right_elem = (absolute_offset > tmax) & ~out_of_bounds
clip_right_elem(a, tmin, tmax) ==
    [i \in 1..Len(a.onset) |-> absolute_offset(a)[i] > tmax
                               /\ ~out_of_bounds(a, tmin, tmax)[i]]

\* The onsets and durations after both clips, before the rows out of
\* bounds are removed.
clipped_onset(a, tmin, tmax) ==
    [i \in 1..Len(a.onset) |->
        IF clip_left_elem(a, tmin, tmax)[i] THEN tmin - crop_offset(a)
        ELSE a.onset[i]]

clipped_duration(a, tmin, tmax) ==
    LET left == [i \in 1..Len(a.onset) |->
                    IF clip_left_elem(a, tmin, tmax)[i]
                    THEN a.duration[i] - (tmin - absolute_onset(a)[i])
                    ELSE a.duration[i]]
    IN  [i \in 1..Len(a.onset) |->
            IF clip_right_elem(a, tmin, tmax)[i]
            THEN left[i] - (absolute_offset(a)[i] - tmax)
            ELSE left[i]]

\* The warnings crop issues when emit_warning is set.
crop_warnings(a, tmin, tmax) ==
    LET n == Len(a.onset)
        omitted == Cardinality({i \in 1..n : out_of_bounds(a, tmin, tmax)[i]})
        limited ==
            Cardinality({i \in 1..n : clip_left_elem(a, tmin, tmax)[i]})
            + Cardinality({i \in 1..n : clip_right_elem(a, tmin, tmax)[i]})
    IN  (IF omitted > 0 THEN <<[kind |-> "omitted", n |-> omitted]>>
         ELSE <<>>)
        \o (IF limited > 0 THEN <<[kind |-> "limited", n |-> limited]>>
            ELSE <<>>)

\* Annotations.crop(tmin, tmax, emit_warning); tmin and tmax are None or
\* Some(t).
crop(a, tmin_in, tmax_in, emit_warning) ==
    IF resolve_raises(a, tmin_in, tmax_in)
    THEN [raised |-> TRUE, self |-> a, warnings |-> <<>>]
    ELSE
    LET tmin == resolve_tmin(a, tmin_in)
        tmax == resolve_tmax(a, tmax_in)
        keep == [i \in 1..Len(a.onset) |-> ~out_of_bounds(a, tmin, tmax)[i]]
    IN  IF window_raises(tmin, tmax)
        THEN [raised |-> TRUE, self |-> a, warnings |-> <<>>]
        ELSE [raised |-> FALSE,
              self |-> [a EXCEPT
                  !.onset = compress(clipped_onset(a, tmin, tmax), keep),
                  !.duration = compress(clipped_duration(a, tmin, tmax), keep),
                  !.description = compress(a.description, keep)],
              warnings |-> IF emit_warning THEN crop_warnings(a, tmin, tmax)
                           ELSE <<>>]

----------------------------------------------------------------------------
(* The life of one Annotations object                                       *)

\* The inputs the model draws.  Times are ticks; 1 is the only origin.
A == <<"a">>
B == <<"b", ":">>
S == <<"s", ";">>

OnsetInputs == {<<>>, <<0>>, <<2>>, <<0, 2>>}
DurationInputs == {<<>>, <<3>>, <<0>>, <<3, 0>>}
DescriptionInputs == {<<>>, <<A>>, <<B>>, <<S>>, <<A, B>>}
OrigTimeInputs == {[kind |-> "none"], [kind |-> "scalar", v |-> 1],
                   [kind |-> "pair", v |-> <<0, 1>>]}
NdimInputs == {0, 1}
\* The rows and batches append is given: a scalar is the one-element
\* sequence; the last two give the three arguments different lengths.
AppendInputs == {<<<<0>>, <<3>>, <<A>>>>,
                 <<<<2>>, <<0>>, <<B>>>>,
                 <<<<2>>, <<3>>, <<S>>>>,
                 <<<<0, 2>>, <<3, 0>>, <<A, B>>>>,
                 <<<<0, 2>>, <<3>>, <<A>>>>,
                 <<<<>>, <<0>>, <<B>>>>}
\* The windows crop is given: <<tmin, tmax>>.
WindowInputs == {<<None, None>>, <<Some(1), Some(2)>>, <<Some(2), Some(2)>>,
                 <<Some(0), Some(1)>>, <<Some(1), None>>, <<None, Some(1)>>,
                 <<Some(2), Some(1)>>, <<Some(-1), Some(2)>>}
IdxInputs == {[kind |-> "int", v |-> 0], [kind |-> "int", v |-> -1],
              [kind |-> "int", v |-> 2], [kind |-> "list", v |-> <<0, 1>>]}

\* The other operand of + and +=: any object a construction yields.
Others ==
    {Obj(Annotations([ndim |-> 1, v |-> o], [ndim |-> 1, v |-> d],
                     [kind |-> "list", v |-> s], t)) :
        <<o, d, s, t>> \in {<<<<>>, <<>>, <<>>, [kind |-> "none"]>>,
                            <<<<2>>, <<0>>, <<B>>, [kind |-> "none"]>>,
                            <<<<0>>, <<3>>, <<A>>,
                              [kind |-> "scalar", v |-> 1]>>}}

Self == [onset |-> onset, duration |-> duration,
         description |-> description, orig_time |-> orig_time]

\* The three arrays have one length.
Aligned(a) == Len(a.onset) = Len(a.duration)
              /\ Len(a.duration) = Len(a.description)

\* The model follows the object while its arrays have one length and
\* at most MaxLen elements.
Modelled == Aligned(Self) /\ Len(onset) <= MaxLen

SetSelf(a) ==
    /\ onset' = a.onset
    /\ duration' = a.duration
    /\ description' = a.description
    /\ orig_time' = a.orig_time

Init ==
    \E o \in OnsetInputs, d \in DurationInputs, s \in DescriptionInputs,
       t \in OrigTimeInputs, on \in NdimInputs, dn \in NdimInputs,
       str \in BOOLEAN :
        LET r == Annotations([ndim |-> on, v |-> o], [ndim |-> dn, v |-> d],
                             IF str /\ Len(s) = 1
                             THEN [kind |-> "str", v |-> s[1]]
                             ELSE [kind |-> "list", v |-> s], t)
        IN  /\ r.ok
            /\ onset = r.onset
            /\ duration = r.duration
            /\ description = r.description
            /\ orig_time = r.orig_time
            /\ last = [op |-> "init", raised |-> FALSE, arg |-> <<>>]
            /\ ret = None
            /\ fid = None

CallAppend ==
    \E in \in AppendInputs :
        /\ Modelled
        /\ Len(onset) + Len(in[1]) <= MaxLen
        /\ Len(duration) + Len(in[2]) <= MaxLen
        /\ Len(description) + Len(in[3]) <= MaxLen
        /\ SetSelf(append(Self, in[1], in[2], in[3]))
        /\ last' = [op |-> "append", raised |-> FALSE, arg |-> in]
        /\ ret' = None
        /\ UNCHANGED fid

CallIAdd ==
    \E other \in Others \cup {Self} :
        /\ Modelled
        /\ Len(onset) + Len(other.onset) <= MaxLen
        /\ LET r == iadd(Self, other)
           IN  /\ SetSelf(r.self)
               /\ last' = [op |-> "iadd", raised |-> r.raised, arg |-> other]
        /\ ret' = None
        /\ UNCHANGED fid

CallAdd ==
    \E other \in Others \cup {Self} :
        /\ Modelled
        /\ Len(onset) + Len(other.onset) <= MaxLen
        /\ LET r == add(Self, other)
           IN  /\ ret' = r.value
               /\ last' = [op |-> "add", raised |-> r.raised, arg |-> other]
        /\ UNCHANGED <<onset, duration, description, orig_time, fid>>

CallDelete ==
    \E idx \in IdxInputs :
        /\ Modelled
        /\ LET r == delete(Self, idx)
           IN  /\ SetSelf(r.self)
               /\ last' = [op |-> "delete", raised |-> r.raised, arg |-> idx]
        /\ ret' = None
        /\ UNCHANGED fid

CallCrop ==
    \E w \in WindowInputs, emit_warning \in BOOLEAN :
        /\ Modelled
        /\ LET r == crop(Self, w[1], w[2], emit_warning)
           IN  /\ SetSelf(r.self)
               /\ last' = [op |-> "crop", raised |-> r.raised,
                           arg |-> <<w[1], w[2], emit_warning>>,
                           warnings |-> r.warnings]
        /\ ret' = None
        /\ UNCHANGED fid

Next == CallAppend \/ CallIAdd \/ CallAdd \/ CallDelete \/ CallCrop

Spec == Init /\ [][Next]_vars

----------------------------------------------------------------------------
(* Claims about the life of one Annotations object (Spec)                   *)

\* C1: after any sequence of append, delete, crop and += from a successful
\* construction, onset, duration and description have the same length.
C1_LengthsEqual ==
    Len(onset) = Len(duration) /\ Len(duration) = Len(description)

\* C2: a += b (and a + b).  When a is non-empty and the origins differ the
\* call raises and a keeps its rows and origin; when a is empty the call
\* does not raise and the result is b's rows with b's origin; when the
\* origins are equal the result is a's rows followed by b's rows, with
\* a's origin.
C2_Expected(a, b, raised, result) ==
    /\ (Len(a.onset) # 0 /\ a.orig_time # b.orig_time) => raised
    /\ Len(a.onset) = 0 =>
          /\ ~raised
          /\ result.orig_time = b.orig_time
          /\ result.onset = b.onset
          /\ result.duration = b.duration
          /\ result.description = b.description
    /\ a.orig_time = b.orig_time =>
          /\ ~raised
          /\ result.orig_time = a.orig_time
          /\ result.onset = a.onset \o b.onset
          /\ result.duration = a.duration \o b.duration
          /\ result.description = a.description \o b.description

C2_Concatenation ==
    [][/\ last'.op = "iadd" =>
            /\ C2_Expected(Self, last'.arg, last'.raised, Self')
            /\ last'.raised => Self' = Self
       /\ last'.op = "add" =>
            /\ Self' = Self
            /\ last'.raised = IsNone(ret')
            /\ C2_Expected(Self, last'.arg, last'.raised,
                           IF IsNone(ret') THEN Self ELSE ret'[1])]_vars

\* C2 witness: a += b was refused for a non-empty a whose origin is not b's.
C2_Witness ==
    /\ last.op = "iadd"
    /\ last.raised
    /\ Len(onset) > 0
    /\ orig_time # last.arg.orig_time
    /\ Len(last.arg.onset) > 0

\* C3: crop(tmin, tmax) with 0 <= tmin <= tmax keeps exactly the rows whose
\* absolute interval meets [tmin, tmax], in their order, with their
\* descriptions, each cut down to the intersection of its interval with
\* the window.
C3_Kept(tmin, tmax) ==
    LET offset == IF IsNone(orig_time) THEN 0 ELSE orig_time[1]
    IN  {i \in 1..Len(onset) :
            ~(onset[i] + offset > tmax
              \/ onset[i] + offset + duration[i] < tmin)}

\* The row of the uncropped set that becomes row k of the cropped set.
C3_Source(tmin, tmax, k) ==
    CHOOSE i \in C3_Kept(tmin, tmax) :
        Cardinality({j \in C3_Kept(tmin, tmax) : j <= i}) = k

C3_CropKeepsIntersection ==
    [][(/\ last'.op = "crop"
        /\ ~IsNone(last'.arg[1])
        /\ ~IsNone(last'.arg[2])
        /\ 0 <= last'.arg[1][1]
        /\ last'.arg[1][1] <= last'.arg[2][1]) =>
       LET tmin == last'.arg[1][1]
           tmax == last'.arg[2][1]
           offset == IF IsNone(orig_time) THEN 0 ELSE orig_time[1]
           m == Cardinality(C3_Kept(tmin, tmax))
       IN  /\ ~last'.raised
           /\ orig_time' = orig_time
           /\ Len(onset') = m
           /\ Len(duration') = m
           /\ Len(description') = m
           /\ \A k \in 1..m :
                LET i == C3_Source(tmin, tmax, k)
                    lo == onset[i] + offset
                    hi == lo + duration[i]
                IN  /\ description'[k] = description[i]
                    /\ onset'[k] + offset = (IF lo < tmin THEN tmin ELSE lo)
                    /\ onset'[k] + offset + duration'[k]
                         = (IF hi > tmax THEN tmax ELSE hi)]_vars

\* C3 witness: crop(1, 2) kept a row that spanned the whole window (it now
\* starts at tmin - offset and lasts tmax - tmin) after another kept row.
C3_Witness ==
    /\ last.op = "crop"
    /\ ~last.raised
    /\ last.arg[1] = Some(1)
    /\ last.arg[2] = Some(2)
    /\ Len(onset) = 2
    /\ onset[2] = 1 - (IF IsNone(orig_time) THEN 0 ELSE orig_time[1])
    /\ duration[2] = 1
    /\ description[1] # description[2]

\* C4: crop raises whenever the resolved tmin is greater than the resolved
\* tmax or the resolved tmin is negative, and a crop that raises leaves
\* onset, duration, description and origin as they were.
C4_CropRejectsWindow ==
    [][last'.op = "crop" =>
       LET absOnset == {onset[i] + (IF IsNone(orig_time) THEN 0
                                    ELSE orig_time[1]) : i \in 1..Len(onset)}
           absEnd == {onset[i] + duration[i]
                      + (IF IsNone(orig_time) THEN 0 ELSE orig_time[1]) :
                        i \in 1..Len(onset)}
           resolvable == /\ ~IsNone(last'.arg[1]) \/ absOnset # {}
                         /\ ~IsNone(last'.arg[2]) \/ absEnd # {}
           tmin == IF IsNone(last'.arg[1]) THEN Min(absOnset)
                   ELSE last'.arg[1][1]
           tmax == IF IsNone(last'.arg[2]) THEN Max(absEnd)
                   ELSE last'.arg[2][1]
       IN  /\ (resolvable /\ (tmin > tmax \/ tmin < 0)) => last'.raised
           /\ last'.raised => Self' = Self]_vars

\* C4 witness: a crop of a non-empty set whose tmax was resolved from the
\* set was refused.
C4_Witness ==
    /\ last.op = "crop"
    /\ last.raised
    /\ last.arg[1] = Some(1)
    /\ IsNone(last.arg[2])
    /\ Len(onset) > 0

----------------------------------------------------------------------------
(* _combine_annotations and _handle_meas_date                               *)

\* _handle_meas_date(meas_date): None, a scalar number of seconds, or a
\* sequence (seconds,) or (seconds, microseconds).
handle_meas_date(meas_date) ==
    IF meas_date.kind = "none" THEN 0
    ELSE IF meas_date.kind = "seq"
         THEN IF Len(meas_date.v) > 1
              THEN meas_date.v[1] * USEC + meas_date.v[2]
              ELSE meas_date.v[1] * USEC
         ELSE meas_date.v

\* n / sfreq, a number of samples as seconds.
samples_to_seconds(n, sfreq) == (n * USEC) \div sfreq

\* combine_shift with the third step added instead of subtracted.
combine_shift_sign(one, two, one_n_samples, one_first_samp, two_first_samp, sfreq, meas_date) ==
    samples_to_seconds(one_n_samples, sfreq)
    + (IF ~IsNone(one.orig_time)
       THEN samples_to_seconds(one_first_samp, sfreq)
            + (handle_meas_date(meas_date) - one.orig_time[1])
       ELSE 0)
    + (IF ~IsNone(two.orig_time)
       THEN samples_to_seconds(two_first_samp, sfreq)
            + (handle_meas_date(meas_date) - two.orig_time[1])
       ELSE 0)

\* The shift necessary for alignment.
combine_shift(one, two, one_n_samples, one_first_samp, two_first_samp, sfreq, meas_date) ==
    LET shift1 == samples_to_seconds(one_n_samples, sfreq)
        shift2 == IF ~IsNone(one.orig_time)
                  THEN shift1 + samples_to_seconds(one_first_samp, sfreq)
                       + (handle_meas_date(meas_date) - one.orig_time[1])
                  ELSE shift1
    IN  IF ~IsNone(two.orig_time)
        THEN shift2 - samples_to_seconds(two_first_samp, sfreq)
             - (handle_meas_date(meas_date) - two.orig_time[1])
        ELSE shift2

\* The merge of two objects: the second one's onsets shifted, the arrays
\* concatenated, a new Annotations with the first one's orig_time.
combine_both(one, two, one_n_samples, one_first_samp, two_first_samp, sfreq, meas_date) ==
    LET shift == combine_shift(one, two, one_n_samples, one_first_samp,
                               two_first_samp, sfreq, meas_date)
        r == Annotations(
                 [ndim |-> 1,
                  v |-> one.onset
                        \o [i \in 1..Len(two.onset) |-> two.onset[i] + shift]],
                 [ndim |-> 1, v |-> one.duration \o two.duration],
                 [kind |-> "list", v |-> one.description \o two.description],
                 IF IsNone(one.orig_time) THEN [kind |-> "none"]
                 ELSE [kind |-> "scalar", v |-> one.orig_time[1]])
    IN  IF r.ok THEN [raised |-> FALSE, value |-> Some(Obj(r))]
        ELSE [raised |-> TRUE, value |-> None]

\* The empty set "Annotations([], [], [], None)" that stands for an absent one.
EmptyAnnotations ==
    Obj(Annotations([ndim |-> 1, v |-> <<>>], [ndim |-> 1, v |-> <<>>],
                    [kind |-> "list", v |-> <<>>], [kind |-> "none"]))

\* _combine_annotations returning the second set as it is when the first is
\* absent.
combine_annotations_verbatim(one, two, one_n_samples, one_first_samp, two_first_samp, sfreq, meas_date) ==
    IF IsNone(one) /\ IsNone(two) THEN [raised |-> FALSE, value |-> None]
    ELSE IF IsNone(two) THEN [raised |-> FALSE, value |-> one]
    ELSE IF IsNone(one) THEN [raised |-> FALSE, value |-> two]
    ELSE combine_both(one[1], two[1], one_n_samples, one_first_samp,
                      two_first_samp, sfreq, meas_date)

\* _combine_annotations(one, two, one_n_samples, one_first_samp,
\* two_first_samp, sfreq, meas_date); one and two are None or Some(object).
combine_annotations(one, two, one_n_samples, one_first_samp, two_first_samp, sfreq, meas_date) ==
    IF IsNone(one) /\ IsNone(two) THEN [raised |-> FALSE, value |-> None]
    ELSE IF IsNone(two) THEN [raised |-> FALSE, value |-> one]
    ELSE combine_both(IF IsNone(one) THEN EmptyAnnotations ELSE one[1],
                      two[1], one_n_samples, one_first_samp, two_first_samp,
                      sfreq, meas_date)

\* The inputs the model draws: seconds are ticks of a microsecond.
CombineOnes ==
    {None,
     Some([onset |-> <<1000000>>, duration |-> <<0>>, description |-> <<A>>,
           orig_time |-> None]),
     Some([onset |-> <<1000000, 250000>>, duration |-> <<500000, 0>>,
           description |-> <<A, B>>, orig_time |-> Some(1500000)]),
     Some([onset |-> <<>>, duration |-> <<>>, description |-> <<>>,
           orig_time |-> Some(2000000)])}
CombineTwos ==
    {None,
     Some([onset |-> <<500000>>, duration |-> <<0>>, description |-> <<B>>,
           orig_time |-> None]),
     Some([onset |-> <<500000, 0>>, duration |-> <<250000, 0>>,
           description |-> <<B, A>>, orig_time |-> Some(2000000)]),
     Some([onset |-> <<750000>>, duration |-> <<250000>>,
           description |-> <<A>>, orig_time |-> Some(1500000)])}
NSamplesInputs == {0, 6, 1000}
FirstSampInputs == {0, 50}
SfreqInputs == {4, 100}
MeasDateInputs == {[kind |-> "none"], [kind |-> "scalar", v |-> 1500000],
                   [kind |-> "seq", v |-> <<1>>],
                   [kind |-> "seq", v |-> <<1, 250000>>]}

\* No call made yet; the Annotations object plays no part.  The model
\* follows one call of a function per behaviour.
InitIdle ==
    /\ onset = <<>>
    /\ duration = <<>>
    /\ description = <<>>
    /\ orig_time = None
    /\ last = [op |-> "none", raised |-> FALSE, arg |-> <<>>]
    /\ ret = None
    /\ fid = None

CallCombine ==
    \E one \in CombineOnes, two \in CombineTwos, one_n_samples \in NSamplesInputs,
       one_first_samp \in FirstSampInputs, two_first_samp \in FirstSampInputs,
       sfreq \in SfreqInputs, meas_date \in MeasDateInputs :
        LET r == combine_annotations(one, two, one_n_samples, one_first_samp,
                                     two_first_samp, sfreq, meas_date)
        IN  /\ last.op = "none"
            /\ last' = [op |-> "combine", raised |-> r.raised,
                        arg |-> [one |-> one, two |-> two,
                                 one_n_samples |-> one_n_samples,
                                 one_first_samp |-> one_first_samp,
                                 two_first_samp |-> two_first_samp,
                                 sfreq |-> sfreq, meas_date |-> meas_date]]
            /\ ret' = r.value
            /\ UNCHANGED <<onset, duration, description, orig_time, fid>>

SpecCombine == InitIdle /\ [][CallCombine]_vars

\* C5: the merge returns None when both sets are absent and, when exactly
\* one is absent, the other one as it is, whichever side is absent.
C5_AbsentSideVerbatim ==
    last.op = "combine" =>
        /\ ~last.raised
        /\ (IsNone(last.arg.one) /\ IsNone(last.arg.two)) => IsNone(ret)
        /\ (~IsNone(last.arg.one) /\ IsNone(last.arg.two)) => ret = last.arg.one
        /\ (IsNone(last.arg.one) /\ ~IsNone(last.arg.two)) => ret = last.arg.two

\* The shift of the second set's onsets, by the four cases of the origins.
ExpectedShift(oneOrig, twoOrig, arg) ==
    LET M == IF arg.meas_date.kind = "none" THEN 0
             ELSE IF arg.meas_date.kind = "scalar" THEN arg.meas_date.v
             ELSE IF Len(arg.meas_date.v) = 1 THEN arg.meas_date.v[1] * 1000000
             ELSE arg.meas_date.v[1] * 1000000 + arg.meas_date.v[2]
        n == (arg.one_n_samples * 1000000) \div arg.sfreq
        f1 == (arg.one_first_samp * 1000000) \div arg.sfreq
        f2 == (arg.two_first_samp * 1000000) \div arg.sfreq
    IN  CASE IsNone(oneOrig) /\ IsNone(twoOrig) -> n
          [] ~IsNone(oneOrig) /\ IsNone(twoOrig) -> n + f1 + M - oneOrig[1]
          [] IsNone(oneOrig) /\ ~IsNone(twoOrig) -> n - f2 - M + twoOrig[1]
          [] OTHER -> n + f1 + M - oneOrig[1] - f2 - M + twoOrig[1]

\* C5 as amended: None when both are absent; the first set as it is when
\* only the second is absent; when only the first is absent, the second
\* set's durations and descriptions with origin None and every onset
\* increased by the shift computed as for an empty first set without origin.
C5_AbsentSide ==
    last.op = "combine" =>
        /\ ~last.raised
        /\ (IsNone(last.arg.one) /\ IsNone(last.arg.two)) => IsNone(ret)
        /\ (~IsNone(last.arg.one) /\ IsNone(last.arg.two)) => ret = last.arg.one
        /\ (IsNone(last.arg.one) /\ ~IsNone(last.arg.two)) =>
              LET two == last.arg.two[1]
                  shift == ExpectedShift(None, two.orig_time, last.arg)
              IN  /\ ~IsNone(ret)
                  /\ IsNone(ret[1].orig_time)
                  /\ ret[1].duration = two.duration
                  /\ ret[1].description = two.description
                  /\ Len(ret[1].onset) = Len(two.onset)
                  /\ \A i \in 1..Len(two.onset) :
                        ret[1].onset[i] = two.onset[i] + shift

\* C5 witness: the first set was absent and the second, which has an
\* origin, came back with no origin and other onsets.
C5_Witness ==
    /\ last.op = "combine"
    /\ IsNone(last.arg.one)
    /\ ~IsNone(last.arg.two)
    /\ ~IsNone(last.arg.two[1].orig_time)
    /\ ~IsNone(ret)
    /\ IsNone(ret[1].orig_time)
    /\ ret[1].onset # last.arg.two[1].onset

\* C6: with both sets present the merge has the first set's origin, the
\* first set's rows unchanged, then the second set's rows with unchanged
\* durations and descriptions and every onset increased by the one shift.
C6_MergeShift ==
    (last.op = "combine" /\ ~IsNone(last.arg.one) /\ ~IsNone(last.arg.two)) =>
        LET one == last.arg.one[1]
            two == last.arg.two[1]
            shift == ExpectedShift(one.orig_time, two.orig_time, last.arg)
            n1 == Len(one.onset)
        IN  /\ ~last.raised
            /\ ~IsNone(ret)
            /\ ret[1].orig_time = one.orig_time
            /\ ret[1].duration = one.duration \o two.duration
            /\ ret[1].description = one.description \o two.description
            /\ Len(ret[1].onset) = n1 + Len(two.onset)
            /\ \A i \in 1..n1 : ret[1].onset[i] = one.onset[i]
            /\ \A i \in 1..Len(two.onset) :
                  ret[1].onset[n1 + i] = two.onset[i] + shift

\* C6 witness: a 1000-sample recording at 100 Hz with onset 1.0 s, merged
\* with a set with onset 0.5 s, neither with an origin: onsets 1.0 and 10.5.
C6_Witness ==
    /\ last.op = "combine"
    /\ ~IsNone(last.arg.one)
    /\ ~IsNone(last.arg.two)
    /\ last.arg.one_n_samples = 1000
    /\ last.arg.sfreq = 100
    /\ ~IsNone(ret)
    /\ ret[1].onset = <<1000000, 10500000>>
    /\ IsNone(ret[1].orig_time)

----------------------------------------------------------------------------
(* _write_annotations and _read_annotations                                 *)

\* d.replace(old, new) on a description
str_replace(d, old, new) ==
    [i \in 1..Len(d) |-> IF d[i] = old THEN new ELSE d[i]]

\* ':'.join(names), the encoding of a name list (io.write.write_name_list)
RECURSIVE name_list(_)
name_list(names) ==
    IF Len(names) = 0 THEN <<>>
    ELSE IF Len(names) = 1 THEN names[1]
    ELSE names[1] \o <<":">> \o name_list(Tail(names))

\* data.split(':')
RECURSIVE str_split(_)
str_split(data) ==
    IF \A i \in 1..Len(data) : data[i] # ":" THEN <<data>>
    ELSE LET k == Min({i \in 1..Len(data) : data[i] = ":"})
         IN  <<SubSeq(data, 1, k - 1)>>
             \o str_split(SubSeq(data, k + 1, Len(data)))

\* _write_annotations(fid, annotations): the directory of the block, a tag
\* [kind, data] per write call, in the order of the calls.
write_annotations(annotations) ==
    <<[kind |-> "FIFF_MNE_BASELINE_MIN", data |-> annotations.onset],
      [kind |-> "FIFF_MNE_BASELINE_MAX",
       data |-> [i \in 1..Len(annotations.onset) |->
                    annotations.duration[i] + annotations.onset[i]]],
      [kind |-> "FIFF_COMMENT",
       data |-> name_list([i \in 1..Len(annotations.description) |->
                    str_replace(annotations.description[i], ":", ";")])]>>
    \o (IF ~IsNone(annotations.orig_time)
        THEN <<[kind |-> "FIFF_MEAS_DATE", data |-> annotations.orig_time[1]]>>
        ELSE <<>>)

\* read_tag(fid, pos).data (io.tag.read_tag): the data written; for a tag
\* with nothing in it, None or the empty value (empty_as_none says which).
read_tag(tag, empty_as_none) ==
    IF tag.kind # "FIFF_MEAS_DATE" /\ tag.data = <<>> /\ empty_as_none
    THEN [isNone |-> TRUE, data |-> <<>>]
    ELSE [isNone |-> FALSE, data |-> tag.data]

\* One turn of the loop over the directory: st holds onset, duration,
\* description, orig_time and the exception raised, if any.
read_entry(st, ent, empty_as_none) ==
    LET tag == read_tag(ent, empty_as_none)
    IN  IF st.exc # "" THEN st
        ELSE IF ent.kind = "FIFF_MNE_BASELINE_MIN"
             THEN [st EXCEPT !.onset = IF tag.isNone THEN <<>> ELSE tag.data]
        ELSE IF ent.kind = "FIFF_MNE_BASELINE_MAX"
             THEN IF tag.isNone THEN [st EXCEPT !.duration = <<>>]
                  \* duration - onset: arrays of different lengths do not
                  \* broadcast
                  ELSE IF Len(tag.data) # Len(st.onset)
                       THEN [st EXCEPT !.exc = "ValueError"]
                       ELSE [st EXCEPT !.duration =
                                [i \in 1..Len(tag.data) |->
                                    tag.data[i] - st.onset[i]]]
        ELSE IF ent.kind = "FIFF_COMMENT"
             \* None has no split
             THEN IF tag.isNone THEN [st EXCEPT !.exc = "AttributeError"]
                  ELSE [st EXCEPT !.description =
                           [i \in 1..Len(str_split(tag.data)) |->
                               str_replace(str_split(tag.data)[i], ";", ":")]]
        ELSE IF ent.kind = "FIFF_MEAS_DATE"
             THEN [st EXCEPT !.orig_time = Some(tag.data)]
        ELSE st

RECURSIVE read_directory(_, _, _)
read_directory(st, directory, empty_as_none) ==
    IF Len(directory) = 0 THEN st
    ELSE read_directory(read_entry(st, directory[1], empty_as_none),
                        Tail(directory), empty_as_none)

\* _read_annotations(fid, tree): None when the file has no annotations
\* block, else the Annotations built from the tags of the block.
read_annotations(file, empty_as_none) ==
    IF IsNone(file) THEN [raised |-> FALSE, exc |-> "", value |-> None]
    ELSE
    LET st == read_directory([onset |-> <<>>, duration |-> <<>>,
                              description |-> <<>>, orig_time |-> None,
                              exc |-> ""],
                             file[1], empty_as_none)
        r == Annotations([ndim |-> 1, v |-> st.onset],
                         [ndim |-> 1, v |-> st.duration],
                         [kind |-> "list", v |-> st.description],
                         IF IsNone(st.orig_time) THEN [kind |-> "none"]
                         ELSE [kind |-> "scalar", v |-> st.orig_time[1]])
    IN  IF st.exc # ""
        THEN [raised |-> TRUE, exc |-> st.exc, value |-> None]
        ELSE IF ~(Len(st.onset) = Len(st.duration)
                  /\ Len(st.duration) = Len(st.description))
             THEN [raised |-> TRUE, exc |-> "AssertionError", value |-> None]
        ELSE IF ~r.ok
             THEN [raised |-> TRUE, exc |-> r.exc, value |-> None]
        ELSE [raised |-> FALSE, exc |-> "", value |-> Some(Obj(r))]

\* The sets written: E is the empty description.
E == <<>>
IOOnsetInputs == {<<>>, <<0>>, <<2>>, <<0, 2>>, <<2, 0>>}
IODurationInputs == {<<>>, <<3>>, <<0>>, <<3, 0>>}
IODescriptionInputs == {<<>>, <<A>>, <<B>>, <<E>>, <<A, B>>, <<B, E>>, <<E, A>>}

InitIO ==
    \E o \in IOOnsetInputs, d \in IODurationInputs, s \in IODescriptionInputs,
       t \in OrigTimeInputs :
        LET r == Annotations([ndim |-> 1, v |-> o], [ndim |-> 1, v |-> d],
                             [kind |-> "list", v |-> s], t)
        IN  /\ r.ok
            /\ onset = r.onset
            /\ duration = r.duration
            /\ description = r.description
            /\ orig_time = r.orig_time
            /\ last = [op |-> "init", raised |-> FALSE, arg |-> <<>>]
            /\ ret = None
            /\ fid = None

\* Annotations.save: a new file with the annotations block.
CallWrite ==
    /\ IsNone(fid)
    /\ fid' = Some(write_annotations(Self))
    /\ last' = [op |-> "write", raised |-> FALSE, arg |-> <<>>]
    /\ ret' = None
    /\ UNCHANGED <<onset, duration, description, orig_time>>

\* read_annotations of the file.
CallRead ==
    \E empty_as_none \in BOOLEAN :
        LET r == read_annotations(fid, empty_as_none)
        IN  /\ last' = [op |-> "read", raised |-> r.raised, arg |-> r.exc]
            /\ ret' = r.value
            /\ UNCHANGED <<onset, duration, description, orig_time, fid>>

NextIO == CallWrite \/ CallRead

SpecIO == InitIO /\ [][NextIO]_vars

\* C7: reading back the file a set was written to yields a set with the
\* same onsets, durations and descriptions in the same order and the same
\* origin, for every set, the empty one included.
C7_RoundTrip ==
    (last.op = "read" /\ ~IsNone(fid)) => (~last.raised /\ ret = Some(Self))

----------------------------------------------------------------------------
(* The recording, _sync_onset and _annotations_starts_stops                 *)

\* A recording raw is [sfreq, first_samp, meas_date, n_times]: n_times is
\* len(raw.times).

\* raw._first_time: the first sample as seconds
first_time(raw) == samples_to_seconds(raw.first_samp, raw.sfreq)

\* np.round(x / d): to the nearest integer, a half to the even one.
round_half_even(x, d) ==
    LET q == x \div d
        r == x % d
    IN  IF 2 * r < d THEN q
        ELSE IF 2 * r > d THEN q + 1
        ELSE IF q % 2 = 0 THEN q ELSE q + 1

\* (x / d).astype(int): towards zero.
truncate(x, d) == IF x >= 0 THEN x \div d ELSE -((-x) \div d)

\* raw.time_as_index(times, use_rounding, origin) for one time: the time is
\* counted from origin (the start of the data when origin is None) and
\* converted to samples from the start of the data.
time_as_index(raw, t, use_rounding, origin) ==
    LET first_samp_in_abs_time ==
            handle_meas_date(raw.meas_date) + first_time(raw)
        absolute_time == t + (IF IsNone(origin) THEN first_samp_in_abs_time
                              ELSE origin[1])
        x == (absolute_time - first_samp_in_abs_time) * raw.sfreq
    IN  IF use_rounding THEN round_half_even(x, USEC) ELSE truncate(x, USEC)

\* _sync_onset(raw, onset, inverse) for one onset
sync_onset(raw, annot_orig_time, t, inverse) ==
    IF IsNone(annot_orig_time) THEN t
    ELSE (annot_orig_time[1] - handle_meas_date(raw.meas_date))
         - (IF inverse THEN -first_time(raw) ELSE first_time(raw)) + t

\* c.upper() for the characters of the model
upper(c) == CASE c = "b" -> "B" [] c = "a" -> "A" [] c = "o" -> "O"
              [] c = "s" -> "S" [] OTHER -> c

\* desc.upper().startswith(kind.upper())
startswith_upper(desc, kind) ==
    /\ Len(kind) <= Len(desc)
    /\ \A i \in 1..Len(kind) : upper(desc[i]) = upper(kind[i])

\* np.argsort(onsets): the indices in the order of the onsets, equal onsets
\* in the order of the rows.
argsort(onsets) ==
    LET n == Len(onsets)
    IN  CHOOSE p \in [1..n -> 1..n] :
            /\ \A i, j \in 1..n : i # j => p[i] # p[j]
            /\ \A i, j \in 1..n :
                  i < j => \/ onsets[p[i]] < onsets[p[j]]
                           \/ onsets[p[i]] = onsets[p[j]] /\ p[i] < p[j]

\* The sorted sample indices of the onsets and ends of the rows whose
\* description starts with one of the kinds.
matching_starts_stops(raw, annotations, kinds) ==
    IF Annotations_len(annotations) = 0
    THEN [onsets |-> <<>>, ends |-> <<>>]
    ELSE
    LET match == [i \in 1..Len(annotations.description) |->
                    \E k \in 1..Len(kinds) :
                        startswith_upper(annotations.description[i], kinds[k])]
        onsets0 == compress(annotations.onset, match)
        durations == compress(annotations.duration, match)
        onsets == [i \in 1..Len(onsets0) |->
                      sync_onset(raw, annotations.orig_time, onsets0[i], FALSE)]
        ends == [i \in 1..Len(onsets) |-> onsets[i] + durations[i]]
        order == argsort(onsets)
    IN  [onsets |-> [i \in 1..Len(onsets) |->
                        time_as_index(raw, onsets[order[i]], TRUE, None)],
         ends |-> [i \in 1..Len(onsets) |->
                      time_as_index(raw, ends[order[i]], TRUE, None)]]

\* The inversion: a 0 in front unless the first onset is 0, len(raw.times)
\* behind unless the last end is there, then the pairs (end[i], onset[i+1]).
invert_starts_stops(raw, m) ==
    LET front == Len(m.onsets) = 0 \/ m.onsets[1] # 0
        onsets1 == IF front THEN <<0>> \o m.onsets ELSE m.onsets
        ends1 == IF front THEN <<0>> \o m.ends ELSE m.ends
        back == Len(ends1) = 1 \/ ends1[Len(ends1)] # raw.n_times
        onsets2 == IF back THEN onsets1 \o <<raw.n_times>> ELSE onsets1
        ends2 == IF back THEN ends1 \o <<raw.n_times>> ELSE ends1
    IN  [onsets |-> SubSeq(ends2, 1, Len(ends2) - 1),
         ends |-> SubSeq(onsets2, 2, Len(onsets2))]

\* _annotations_starts_stops(raw, kinds, name, invert); raw.annotations is
\* passed as annotations, kinds is a list of strings.
annotations_starts_stops(raw, annotations, kinds, invert) ==
    IF invert
    THEN invert_starts_stops(raw, matching_starts_stops(raw, annotations, kinds))
    ELSE matching_starts_stops(raw, annotations, kinds)

\* The inputs the model draws.  One second is USEC ticks.
BAD == <<"b", "a">>
Bad2 == <<"B", "a", "s">>
OK == <<"o">>
StartsStopsRows ==
    {<<o * USEC, d * USEC, s>> :
        o \in {0, 2, 4}, d \in {0, 3, 6}, s \in {BAD}}
    \cup {<<2 * USEC, 3 * USEC, OK>>, <<2500000, 1000000, Bad2>>,
          <<0, 10 * USEC, BAD>>, <<8 * USEC, 2 * USEC, BAD>>}
\* The most rows of a set given to _annotations_starts_stops.
MaxIntervals == 2
RawInputs == {[sfreq |-> 1, first_samp |-> 0, meas_date |-> [kind |-> "none"],
               n_times |-> 10],
              [sfreq |-> 2, first_samp |-> 2,
               meas_date |-> [kind |-> "seq", v |-> <<1, 0>>], n_times |-> 10]}

RECURSIVE RowSeqs(_, _)
RowSeqs(rows, n) ==
    IF n = 0 THEN {<<>>}
    ELSE RowSeqs(rows, n - 1)
         \cup {Append(q, r) : q \in {x \in RowSeqs(rows, n - 1) : Len(x) = n - 1},
                              r \in rows}

\* The Annotations object with the given rows.
FromRows(rows, ot) ==
    [onset |-> [i \in 1..Len(rows) |-> rows[i][1]],
     duration |-> [i \in 1..Len(rows) |-> rows[i][2]],
     description |-> [i \in 1..Len(rows) |-> rows[i][3]],
     orig_time |-> ot]

\* The matching intervals lie within the data of the recording.
WithinData(raw, m) ==
    \A i \in 1..Len(m.onsets) :
        0 <= m.onsets[i] /\ m.onsets[i] <= m.ends[i] /\ m.ends[i] <= raw.n_times

CallStartsStops ==
    \E raw \in RawInputs, rows \in RowSeqs(StartsStopsRows, MaxIntervals),
       ot \in {None, Some(2 * USEC)}, invert \in BOOLEAN :
        /\ last.op = "none"
        /\ WithinData(raw, matching_starts_stops(raw, FromRows(rows, ot),
                                                 <<BAD>>))
        /\ last' = [op |-> "starts_stops", raised |-> FALSE,
                    arg |-> [raw |-> raw, annotations |-> FromRows(rows, ot),
                             kinds |-> <<BAD>>, invert |-> invert]]
        /\ ret' = Some(annotations_starts_stops(raw, FromRows(rows, ot),
                                                <<BAD>>, invert))
        /\ UNCHANGED <<onset, duration, description, orig_time, fid>>

SpecStartsStops == InitIdle /\ [][CallStartsStops]_vars

\* C8: with invert=True the result is the complement of the matching
\* intervals on [0, n_samples]: every pair has start <= stop, no pair
\* overlaps the interior of a matching interval, every sample position of
\* [0, n_samples] outside the matching intervals lies in a pair; one match
\* over [2, 5] on 10 samples gives (0, 2), (5, 10).
C8_InvertIsComplement ==
    (last.op = "starts_stops" /\ last.arg.invert) =>
        LET m == matching_starts_stops(last.arg.raw, last.arg.annotations,
                                       last.arg.kinds)
            n == last.arg.raw.n_times
            starts == ret[1].onsets
            stops == ret[1].ends
        IN  /\ Len(starts) = Len(stops)
            /\ \A k \in 1..Len(starts) : starts[k] <= stops[k]
            /\ \A k \in 1..Len(starts), i \in 1..Len(m.onsets) :
                  LET lo == IF starts[k] > m.onsets[i] THEN starts[k]
                            ELSE m.onsets[i]
                      hi == IF stops[k] < m.ends[i] THEN stops[k]
                            ELSE m.ends[i]
                  IN  ~(lo < hi)
            /\ \A p \in 0..n :
                  (\A i \in 1..Len(m.onsets) :
                      ~(m.onsets[i] <= p /\ p <= m.ends[i]))
                  => \E k \in 1..Len(starts) : starts[k] <= p /\ p <= stops[k]
            /\ (m.onsets = <<2>> /\ m.ends = <<5>> /\ n = 10)
                  => (starts = <<0, 5>> /\ stops = <<2, 10>>)

----------------------------------------------------------------------------
(* events_from_annotations                                                  *)

\* inds = raw.time_as_index(annotations.onset, use_rounding=use_rounding,
\*                          origin=annotations.orig_time) + raw.first_samp
event_inds(raw, annotations, use_rounding) ==
    [i \in 1..Len(annotations.onset) |->
        time_as_index(raw, annotations.onset[i], use_rounding,
                      annotations.orig_time) + raw.first_samp]

\* regexp_match finding the pattern anywhere in the description.
regexp_search(regexp, desc) ==
    IsNone(regexp)
    \/ \E k \in 0..Len(desc) :
          /\ k + Len(regexp[1]) <= Len(desc)
          /\ \A i \in 1..Len(regexp[1]) : desc[k + i] = regexp[1][i]

\* regexp_comp.match(desc) is not None, regexp being None ('.*') or a
\* pattern of literal characters: the description starts with the pattern.
regexp_match(regexp, desc) ==
    IsNone(regexp)
    \/ /\ Len(regexp[1]) <= Len(desc)
       /\ \A i \in 1..Len(regexp[1]) : desc[i] = regexp[1][i]

\* The first value of utils._Counter.
CounterStart == 1

\* event_id(desc): a Counter returns its count and steps it; a callable is
\* a function from descriptions to None or Some(code).
call_event_id(event_id, count, desc) ==
    IF event_id.kind = "none"
    THEN [trigger |-> Some(count), count |-> count + 1]
    ELSE [trigger |-> event_id.v[desc], count |-> count]

\* resolve_desc without "if desc in event_id_: continue".
resolve_desc_again(st, desc, event_id, regexp) ==
    IF ~regexp_match(regexp, desc) THEN st
    ELSE IF event_id.kind = "dict"
         THEN IF desc \in DOMAIN event_id.v
              THEN [st EXCEPT !.event_id_ = (desc :> event_id.v[desc]) @@ @]
              ELSE st
    ELSE LET c == call_event_id(event_id, st.count, desc)
         IN  IF ~IsNone(c.trigger)
             THEN [st EXCEPT !.event_id_ = (desc :> c.trigger[1]) @@ @,
                             !.count = c.count]
             ELSE [st EXCEPT !.dropped = Append(@, desc), !.count = c.count]

\* One turn of "for desc in annotations.description": st holds event_id_,
\* dropped and the count of the Counter.
resolve_desc(st, desc, event_id, regexp) ==
    IF desc \in DOMAIN st.event_id_ THEN st
    ELSE IF ~regexp_match(regexp, desc) THEN st
    ELSE IF event_id.kind = "dict"
         THEN IF desc \in DOMAIN event_id.v
              THEN [st EXCEPT !.event_id_ = (desc :> event_id.v[desc]) @@ @]
              ELSE st
    ELSE LET c == call_event_id(event_id, st.count, desc)
         IN  IF ~IsNone(c.trigger)
             THEN [st EXCEPT !.event_id_ = (desc :> c.trigger[1]) @@ @,
                             !.count = c.count]
             ELSE [st EXCEPT !.dropped = Append(@, desc), !.count = c.count]

\* no_events_error raising whether or not a pattern was supplied.
no_events_error_any_pattern(event_sel, regexp) ==
    Len(event_sel) = 0

\* if len(event_sel) == 0 and regexp is not None: raise ValueError
no_events_error(event_sel, regexp) ==
    Len(event_sel) = 0 /\ ~IsNone(regexp)

RECURSIVE resolve_all(_, _, _, _)
resolve_all(st, descs, event_id, regexp) ==
    IF Len(descs) = 0 THEN st
    ELSE resolve_all(resolve_desc(st, descs[1], event_id, regexp),
                     Tail(descs), event_id, regexp)

\* events_from_annotations(raw, event_id, regexp, use_rounding);
\* raw.annotations is passed as annotations.  event_id is None
\* [kind |-> "none"], a dict [kind |-> "dict", v |-> function] or a callable
\* [kind |-> "callable", v |-> function to None or Some(code)].
events_from_annotations(raw, annotations, event_id, regexp, use_rounding) ==
    IF Annotations_len(annotations) = 0
    THEN [raised |-> FALSE,
          value |-> Some([events |-> <<>>, event_id |-> event_id])]
    ELSE
    LET inds == event_inds(raw, annotations, use_rounding)
        st == resolve_all([event_id_ |-> <<>>, dropped |-> <<>>,
                           count |-> CounterStart],
                          annotations.description, event_id, regexp)
        sel == [i \in 1..Len(annotations.description) |->
                   annotations.description[i] \in DOMAIN st.event_id_]
        event_sel == compress([i \in 1..Len(annotations.description) |-> i],
                              sel)
    IN  IF no_events_error(event_sel, regexp)
        THEN [raised |-> TRUE, value |-> None]
        ELSE [raised |-> FALSE,
              value |-> Some(
                  [events |-> [k \in 1..Len(event_sel) |->
                      <<inds[event_sel[k]], 0,
                        st.event_id_[annotations.description[event_sel[k]]]>>],
                   event_id |-> [kind |-> "dict", v |-> st.event_id_]])]

\* The inputs the model draws.
AB == <<"a", "b">>
Bd == <<"b">>
EventRows == {<<500000, 0, A>>, <<1500000, 0, Bd>>, <<2500000, USEC, AB>>}
\* The most rows of a set given to events_from_annotations.
MaxEvents == 3
RegexpInputs == {None, Some(<<"a">>), Some(<<"b">>), Some(<<"c">>)}
EventDescs == {A, Bd, AB}
EventIdInputs ==
    {[kind |-> "none"],
     [kind |-> "dict", v |-> (A :> 1)],
     [kind |-> "dict", v |-> (A :> 1) @@ (AB :> 1) @@ (<<"c">> :> 4)],
     [kind |-> "dict", v |-> (Bd :> 3) @@ (AB :> 7)],
     [kind |-> "callable",
      v |-> [d \in EventDescs |-> IF d = Bd THEN None ELSE Some(Len(d) + 4)]]}

CallEvents ==
    \E raw \in RawInputs, rows \in RowSeqs(EventRows, MaxEvents),
       ot \in {None, Some(2 * USEC)}, event_id \in EventIdInputs,
       regexp \in RegexpInputs, use_rounding \in BOOLEAN :
        LET r == events_from_annotations(raw, FromRows(rows, ot), event_id,
                                         regexp, use_rounding)
        IN  /\ last.op = "none"
            /\ last' = [op |-> "events", raised |-> r.raised,
                        arg |-> [raw |-> raw,
                                 annotations |-> FromRows(rows, ot),
                                 event_id |-> event_id, regexp |-> regexp,
                                 use_rounding |-> use_rounding]]
            /\ ret' = r.value
            /\ UNCHANGED <<onset, duration, description, orig_time, fid>>

SpecEvents == InitIdle /\ [][CallEvents]_vars

----------------------------------------------------------------------------
(* Claims on events_from_annotations                                        *)

\* The description d starts with the literal pattern p (None: any d does).
StartsWithPattern(p, d) ==
    IsNone(p) \/ (Len(p[1]) <= Len(d) /\ SubSeq(d, 1, Len(p[1])) = p[1])

\* The indexes of a sequence of booleans that hold TRUE, in order.
RECURSIVE TrueIndexes(_, _)
TrueIndexes(mask, from) ==
    IF from > Len(mask) THEN <<>>
    ELSE IF mask[from] THEN <<from>> \o TrueIndexes(mask, from + 1)
    ELSE TrueIndexes(mask, from + 1)

\* The call was made on a non-empty set with a mapping as code_map.
C9_Case ==
    /\ last.op = "events"
    /\ last.arg.event_id.kind = "dict"
    /\ Len(last.arg.annotations.description) > 0

\* The rows whose description matches the pattern at its start and is a
\* key of code_map, in the rows' order.
C9_Surviving ==
    LET d == last.arg.annotations.description
    IN  TrueIndexes([i \in 1..Len(d) |->
                        /\ StartsWithPattern(last.arg.regexp, d[i])
                        /\ d[i] \in DOMAIN last.arg.event_id.v], 1)

\* The call returned one event per surviving row, in order, and the
\* resolved map of the surviving descriptions.
C9_Output ==
    LET d == last.arg.annotations.description
        code_map == last.arg.event_id.v
        inds == event_inds(last.arg.raw, last.arg.annotations,
                           last.arg.use_rounding)
        s == C9_Surviving
    IN  /\ ~last.raised
        /\ ~IsNone(ret)
        /\ ret[1].events = [k \in 1..Len(s) |->
                               <<inds[s[k]], 0, code_map[d[s[k]]]>>]
        /\ ret[1].event_id.kind = "dict"
        /\ ret[1].event_id.v = [x \in {d[s[k]] : k \in 1..Len(s)} |->
                                   code_map[x]]

\* C9 as stated: for a non-empty set and a mapping code_map the call
\* returns, without error, one event [sample index, 0, code_map[description]]
\* per row whose description matches the pattern at its start and is a key
\* of code_map, in the rows' order, and the resolved map holds exactly the
\* surviving descriptions with their codes.
C9_MappedEvents == C9_Case => C9_Output

\* C9 amended: for a non-empty set and a mapping code_map, the call fails
\* when a pattern was supplied and no row survives; in every other case it
\* returns one event [sample index, 0, code_map[description]] per surviving
\* row, in the rows' order, and the resolved map of the surviving
\* descriptions.
C9_MappedEventsUnlessNoneSurvive ==
    C9_Case =>
        IF Len(C9_Surviving) = 0 /\ ~IsNone(last.arg.regexp)
        THEN last.raised /\ IsNone(ret)
        ELSE C9_Output

\* A call that kept a row, dropped a row the pattern matches but code_map
\* does not hold, and dropped a row code_map holds but the pattern does not
\* match.
C9_Witness ==
    /\ C9_Case
    /\ ~last.raised
    /\ ~IsNone(last.arg.regexp)
    /\ Len(C9_Surviving) >= 1
    /\ \E i, j \in 1..Len(last.arg.annotations.description) :
          LET d == last.arg.annotations.description
          IN  /\ StartsWithPattern(last.arg.regexp, d[i])
              /\ d[i] \notin DOMAIN last.arg.event_id.v
              /\ ~StartsWithPattern(last.arg.regexp, d[j])
              /\ d[j] \in DOMAIN last.arg.event_id.v

\* The call was made on a non-empty set without code_map and returned.
C10_Case ==
    /\ last.op = "events"
    /\ last.arg.event_id.kind = "none"
    /\ Len(last.arg.annotations.description) > 0
    /\ ~last.raised

\* The rows whose description matches the pattern at its start, in order.
C10_Surviving ==
    LET d == last.arg.annotations.description
    IN  TrueIndexes([i \in 1..Len(d) |->
                        StartsWithPattern(last.arg.regexp, d[i])], 1)

\* The value the counter gives at the first occurrence of the description
\* of row i: the number of distinct surviving descriptions up to there.
C10_FirstCode(i) ==
    LET d == last.arg.annotations.description
        first == CHOOSE j \in 1..i :
                    d[j] = d[i] /\ \A k \in 1..(j - 1) : d[k] # d[i]
    IN  Cardinality({d[k] : k \in {m \in 1..first :
                        StartsWithPattern(last.arg.regexp, d[m])}})

\* C10: with code_map absent, two surviving rows get the same code if and
\* only if they have the same description; every occurrence of a
\* description gets the code the counter assigned at its first occurrence,
\* and two different descriptions never share a code.
C10_CounterCodes ==
    C10_Case =>
        LET d == last.arg.annotations.description
            s == C10_Surviving
            ev == ret[1].events
        IN  /\ Len(ev) = Len(s)
            /\ \A k, l \in 1..Len(s) :
                  (ev[k][3] = ev[l][3]) <=> (d[s[k]] = d[s[l]])
            /\ \A k \in 1..Len(s) :
                  /\ ev[k][3] = C10_FirstCode(s[k])
                  /\ ret[1].event_id.v[d[s[k]]] = ev[k][3]
            /\ \A x, y \in DOMAIN ret[1].event_id.v :
                  x # y => ret[1].event_id.v[x] # ret[1].event_id.v[y]

\* A call on three rows where the first and the third share a description
\* and a code and the second has another description and another code.
C10_Witness ==
    /\ C10_Case
    /\ Len(ret[1].events) = 3
    /\ last.arg.annotations.description[1]
          = last.arg.annotations.description[3]
    /\ last.arg.annotations.description[1]
          # last.arg.annotations.description[2]
    /\ ret[1].events[1][3] = ret[1].events[3][3]
    /\ ret[1].events[1][3] # ret[1].events[2][3]

\* The rows that survive the pattern and code_map filters: the description
\* matches the pattern at its start and code_map, when given, holds it (a
\* mapping) or gives it a code (a callable).
C11_Surviving ==
    LET d == last.arg.annotations.description
        event_id == last.arg.event_id
    IN  {i \in 1..Len(d) :
            /\ StartsWithPattern(last.arg.regexp, d[i])
            /\ event_id.kind = "dict" => d[i] \in DOMAIN event_id.v
            /\ event_id.kind = "callable" => ~IsNone(event_id.v[d[i]])}

\* C11: for a non-empty set the call fails with a value error if and only
\* if a pattern was supplied and no row survives the pattern and code_map
\* filters; with no pattern and no surviving row it returns an empty event
\* array; for an empty set it returns an empty event array and the caller's
\* code_map unchanged, whatever the pattern.
C11_ValueErrorIffNoMatch ==
    last.op = "events" =>
        IF Len(last.arg.annotations.description) > 0
        THEN /\ last.raised <=>
                   (~IsNone(last.arg.regexp) /\ C11_Surviving = {})
             /\ (IsNone(last.arg.regexp) /\ C11_Surviving = {}) =>
                   (~IsNone(ret) /\ ret[1].events = <<>>)
        ELSE /\ ~last.raised
             /\ ret = Some([events |-> <<>>, event_id |-> last.arg.event_id])

\* A call on a non-empty set with a pattern and no surviving row, which
\* failed.
C11_Witness ==
    /\ last.op = "events"
    /\ Len(last.arg.annotations.description) > 0
    /\ ~IsNone(last.arg.regexp)
    /\ C11_Surviving = {}
    /\ last.raised

\* A call on a non-empty set without pattern and with no surviving row,
\* which returned no event.
C11_WitnessNoPattern ==
    /\ last.op = "events"
    /\ Len(last.arg.annotations.description) > 0
    /\ IsNone(last.arg.regexp)
    /\ C11_Surviving = {}
    /\ ~last.raised /\ ret[1].events = <<>>

\* A call on an empty set with a pattern and a code_map, which returned
\* the code_map.
C11_WitnessEmpty ==
    /\ last.op = "events"
    /\ Len(last.arg.annotations.description) = 0
    /\ ~IsNone(last.arg.regexp)
    /\ last.arg.event_id.kind = "dict"
    /\ ~last.raised /\ ret[1].event_id = last.arg.event_id

----------------------------------------------------------------------------
(* Claims on the warnings of crop and on the separator (Spec)               *)

\* The warnings that report dropped rows as omitted and clipped rows as
\* limited, a row clipped on both sides counted once; none for a count of 0.
C12_Expected(a, tmin, tmax) ==
    LET n == Len(a.onset)
        dropped == {i \in 1..n : absolute_onset(a)[i] > tmax
                                 \/ absolute_offset(a)[i] < tmin}
        clipped == {i \in (1..n) \ dropped :
                        absolute_onset(a)[i] < tmin
                        \/ absolute_offset(a)[i] > tmax}
    IN  (IF dropped # {}
         THEN <<[kind |-> "omitted", n |-> Cardinality(dropped)]>>
         ELSE <<>>)
        \o (IF clipped # {}
            THEN <<[kind |-> "limited", n |-> Cardinality(clipped)]>>
            ELSE <<>>)

\* C12: a crop with emit_warning set that passes its checks reports the
\* number of rows dropped as out of bounds as omitted and the number of rows
\* clipped as limited, a row clipped on both its sides counting as one row;
\* it reports nothing for a count of zero and does not fail.
C12_WarningCounts ==
    [][(last'.op = "crop" /\ last'.arg[3]
        /\ ~resolve_raises(Self, last'.arg[1], last'.arg[2])
        /\ ~window_raises(resolve_tmin(Self, last'.arg[1]),
                          resolve_tmax(Self, last'.arg[2])))
       => /\ ~last'.raised
          /\ last'.warnings =
                C12_Expected(Self, resolve_tmin(Self, last'.arg[1]),
                             resolve_tmax(Self, last'.arg[2]))]_vars

\* C13: in every set reached from a successful construction by append, +=,
\* delete and crop, no description contains the separator ';'.
C13_NoSeparator ==
    \A i \in 1..Len(description) : ~HasSemicolon(description[i])

====
